---- MODULE Spec2Model ----
(***************************************************************************)
(* Coverage-map reconstruction of brownie/project/compiler.py:             *)
(* expand_source_map, generate_coverage_data (the correlation walk, the    *)
(* revert reconciliation pass and the branch finalizer) and the loop of    *)
(* generate_build_json that calls it once per contract.                    *)
(*                                                                         *)
(* Python values are encoded as follows.  A str is a TLA+ string.  None is *)
(* the empty tuple <<>>; an optional value v that is present is <<v>>      *)
(* (a source offset (start, stop) is the pair <<start, stop>> itself).  A  *)
(* dict whose iteration order the code depends on is a sequence of         *)
(* <<key, value>> pairs in insertion order.                                *)
(***************************************************************************)
EXTENDS Integers, Sequences, FiniteSets, TLC

None == <<>>

Max(a, b) == IF a > b THEN a ELSE b

Range(s) == {s[i] : i \in 1..Len(s)}

(***************************************************************************)
(* str operations                                                          *)
(***************************************************************************)

\* s[i:] for a 0-based i
StrFrom(s, i) == IF i >= Len(s) THEN "" ELSE SubSeq(s, i + 1, Len(s))

\* s[:n]
StrTo(s, n) == IF Len(s) <= n THEN s ELSE SubSeq(s, 1, n)

\* s.split(sep) for a one-character sep
split(s, sep) ==
    LET at == {i \in 1..Len(s) : SubSeq(s, i, i) = sep}
        n == Cardinality(at)
        cut(k) == IF k = 0 THEN 0
                  ELSE IF k = n + 1 THEN Len(s) + 1
                  ELSE CHOOSE i \in at : Cardinality({j \in at : j < i}) = k - 1
    IN  [k \in 1..(n + 1) |->
            IF cut(k - 1) + 1 > cut(k) - 1 THEN ""
            ELSE SubSeq(s, cut(k - 1) + 1, cut(k) - 1)]

DecimalDigits == <<"0", "1", "2", "3", "4", "5", "6", "7", "8", "9">>

IsDigit(c) == \E d \in 1..10 : DecimalDigits[d] = c

DigitValue(c) == (CHOOSE d \in 1..10 : DecimalDigits[d] = c) - 1

RECURSIVE ParseDigits(_, _, _)
ParseDigits(s, i, acc) ==
    IF i > Len(s) THEN acc
    ELSE ParseDigits(s, i + 1, acc * 10 + DigitValue(SubSeq(s, i, i)))

\* whether int(s) succeeds: an optional sign and at least one digit
IsNumeral(s) ==
    LET body == IF StrTo(s, 1) = "-" THEN StrFrom(s, 1) ELSE s
    IN  /\ Len(body) > 0
        /\ \A i \in 1..Len(body) : IsDigit(SubSeq(body, i, i))

\* int(s)
int(s) == IF StrTo(s, 1) = "-" THEN 0 - ParseDigits(s, 2, 0) ELSE ParseDigits(s, 1, 0)

LowerHexDigits == <<"0", "1", "2", "3", "4", "5", "6", "7", "8", "9",
                    "a", "b", "c", "d", "e", "f">>

RECURSIVE HexDigitsOf(_)
HexDigitsOf(n) ==
    IF n < 16 THEN LowerHexDigits[n + 1]
    ELSE HexDigitsOf(n \div 16) \o LowerHexDigits[(n % 16) + 1]

\* hex(n)
hex(n) == IF n < 0 THEN "-0x" \o HexDigitsOf(0 - n) ELSE "0x" \o HexDigitsOf(n)

UpperOf(c) ==
    CASE c = "a" -> "A" [] c = "b" -> "B" [] c = "c" -> "C" [] c = "d" -> "D"
      [] c = "e" -> "E" [] c = "f" -> "F" [] c = "x" -> "X" [] OTHER -> c

RECURSIVE UpperFrom(_, _)
UpperFrom(s, i) ==
    IF i > Len(s) THEN "" ELSE UpperOf(SubSeq(s, i, i)) \o UpperFrom(s, i + 1)

\* s.upper()
upper(s) == UpperFrom(s, 1)

RECURSIVE Join(_, _)
Join(parts, sep) ==
    IF parts = <<>> THEN ""
    ELSE IF Len(parts) = 1 THEN parts[1]
    ELSE parts[1] \o sep \o Join(Tail(parts), sep)

(***************************************************************************)
(* dicts kept in insertion order                                           *)
(***************************************************************************)

DictKeys(d) == {d[i][1] : i \in 1..Len(d)}

DictGet(d, k) == d[CHOOSE i \in 1..Len(d) : d[i][1] = k][2]

\* d[k] = v: an existing key keeps its place, a new key goes last
DictSet(d, k, v) ==
    IF k \in DictKeys(d)
    THEN [i \in 1..Len(d) |-> IF d[i][1] = k THEN <<k, v>> ELSE d[i]]
    ELSE Append(d, <<k, v>>)

\* a faulty deletion that leaves the key in place
DictKeep(d, k) == d

\* del d[k]
DictDel(d, k) == SelectSeq(d, LAMBDA e : e[1] # k)

\* map.setdefault(fn, {})[index] = value, for a coverage map of one path kept
\* as the set of its [fn, index, value] entries
MapPut(map, fn, index, value) ==
    {e \in map : ~(e.fn = fn /\ e.index = index)}
        \cup {[fn |-> fn, index |-> index, value |-> value]}

(***************************************************************************)
(* expand_source_map                                                       *)
(***************************************************************************)

\* an exception that was raised: its type and the source line raising it
Raised(type, line) == <<type, line>>

\* [None]*n
Nones(n) == [k \in 1..n |-> None]

\* whether some int(i) of _expand_row raises ValueError
ExpandRowRaises(row) ==
    LET fields == split(row, ":")
    IN  \E k \in 1..Len(fields) : k <= 3 /\ fields[k] # "" /\ ~IsNumeral(fields[k])

\* _expand_row(row): three optional ints, then the remaining fields as they
\* are, padded with None to four fields
_expand_row(row) ==
    LET fields == split(row, ":")
        n == Len(fields)
    IN  [k \in 1..(IF n < 3 THEN n ELSE 3) |->
            IF fields[k] # "" THEN <<int(fields[k])>> ELSE None]
        \o [k \in 1..(n - 3) |-> <<fields[k + 3]>>]
        \o Nones(4 - n)

\* the list comprehension of expand_source_map
ExpandRows(rows) == [k \in 1..Len(rows) |-> IF rows[k] # "" THEN _expand_row(rows[k]) ELSE None]

\* source_map[i] after the loop body of expand_source_map for index i
FillRow(prev, cur) ==
    IF cur = None THEN prev
    ELSE [x \in 1..Len(cur) |-> IF x <= 4 /\ cur[x] = None THEN prev[x] ELSE cur[x]]

\* the body subscripts None when the entry before is None and a field is missing
FillRowRaises(prev, cur) ==
    cur # None /\ prev = None /\ \E x \in 1..4 : cur[x] = None

RECURSIVE FillFrom(_, _)
FillFrom(list, i) ==
    IF i > Len(list) THEN [err |-> None, val |-> list]
    ELSE IF FillRowRaises(list[i - 1], list[i])
         THEN [err |-> Raised("TypeError", 383), val |-> <<>>]
         ELSE FillFrom([list EXCEPT ![i] = FillRow(list[i - 1], list[i])], i + 1)

\* expand_source_map(source_map): [err, val]
expand_source_map(text) ==
    LET rows == split(text, ";")
    IN  IF \E k \in 1..Len(rows) : rows[k] # "" /\ ExpandRowRaises(rows[k])
        THEN [err |-> Raised("ValueError", 389), val |-> <<>>]
        ELSE FillFrom(ExpandRows(rows), 2)

(***************************************************************************)
(* The syntax tree handed to generate_build_json: two source units, the    *)
(* contract (contract_id 0, A.sol) and its dependency (contract_id 1,      *)
(* B.sol).                                                                 *)
(***************************************************************************)

\* source_nodes = dict((i.contract_id, i.parent()) ...): contract_id -> path
source_nodes == (0 :> "A.sol") @@ (1 :> "B.sol")

paths == {source_nodes[i] : i \in DOMAIN source_nodes}

\* the FunctionDefinition nodes at depth 2 of each source unit
FunctionDefinitions ==
    << [path |-> "A.sol", full_name |-> "A.f", offset |-> <<0, 50>>],
       [path |-> "A.sol", full_name |-> "A.h", offset |-> <<55, 95>>],
       [path |-> "B.sol", full_name |-> "B.g", offset |-> <<0, 300>>] >>

\* sources.is_inside_offset(inner, outer)
is_inside_offset(inner, outer) ==
    outer[1] <= inner[1] /\ inner[1] <= inner[2] /\ inner[2] <= outer[2]

\* children(depth=2, inner_offset=offset, filters=FunctionDefinition) of a source unit
FunctionsAround(path, offset) ==
    SelectSeq(FunctionDefinitions,
              LAMBDA f : f.path = path /\ is_inside_offset(offset, f.offset))

\* children(depth=2, filters={FunctionDefinition, full_name: fn_name}) of a source unit
FunctionsNamed(path, fn_name) ==
    SelectSeq(FunctionDefinitions, LAMBDA f : f.path = path /\ f.full_name = fn_name)

\* get_statement_nodes(source_nodes): path -> set of statement offsets
get_statement_nodes ==
    [p \in paths |->
        IF p = "A.sol" THEN {<<2, 8>>, <<4, 6>>, <<60, 70>>}
        ELSE {<<7, 8>>, <<200, 202>>}]

\* get_branch_nodes(source_nodes): path -> set of branch nodes (offset, jump)
get_branch_nodes ==
    [p \in paths |->
        IF p = "A.sol"
        THEN {[offset |-> <<3, 4>>, jump |-> FALSE], [offset |-> <<5, 6>>, jump |-> TRUE]}
        ELSE {[offset |-> <<200, 202>>, jump |-> TRUE]}]

VARIABLES
    contracts,               \* generate_build_json: the contracts still to process
    build,                   \* generate_build_json: build_json, one entry per contract
    shared_statement_nodes,  \* generate_build_json: statement_nodes
    shared_branch_nodes,     \* generate_build_json: branch_nodes
    ctl,                     \* where control is
    error,                   \* the exception that ended the run, or None
    evm,                     \* the contract being processed
    source_map, opcodes,     \* the two deques
    statement_nodes, statement_map,
    branch_original, branch_nodes, branch_active, branch_set,
    count, pc, pc_list, first_revert,
    revert_map,              \* (path, fn) -> step indices, in insertion order
    revert_at,               \* position of the reconciliation loop in revert_map
    revert_nodes,            \* the revert FunctionCall nodes last enumerated
    stamped,                 \* history: <<node offset, step index>> per reconciliation stamp
    branch_map

VARIABLES
    base_node,               \* _get_recursive_branches: its argument
    binary_branches          \* _get_recursive_branches: what it returned, or None

\* the variables of get_branch_nodes, which the coverage walk does not touch
extractor == <<base_node, binary_branches>>

VARIABLES
    now,                     \* time.time(), in seconds
    _gasnow_update,          \* strategies.py: _gasnow_update
    _gasnow_data,            \* strategies.py: _gasnow_data, or None while it is {}
    last_gas_price,          \* update_gas_price: its argument
    fetched,                 \* update_gas_price: <<initial_gas_price, max_gas_price>>
    gas_price,               \* what get_gas_price or update_gas_price returned, or None
    gas_error                \* the exception that ended the call, or None

\* the variables of network/gas/strategies.py
gas == <<now, _gasnow_update, _gasnow_data, last_gas_price, fetched, gas_price, gas_error>>

VARIABLES
    _gasnow_lock,            \* strategies.py: _gasnow_lock, the thread holding it or None
    callers                  \* per thread: where it is in _fetch_gasnow, and its locals

\* the lock and the threads that call _fetch_gasnow
fetchers == <<_gasnow_lock, callers>>

vars == <<contracts, build, shared_statement_nodes, shared_branch_nodes, ctl, error,
          evm, source_map, opcodes, statement_nodes, statement_map, branch_original,
          branch_nodes, branch_active, branch_set, count, pc, pc_list, first_revert,
          revert_map, revert_at, revert_nodes, stamped, branch_map, extractor, gas,
          fetchers>>

locals == <<source_map, opcodes, statement_nodes, statement_map, branch_original,
            branch_nodes, branch_active, branch_set, count, pc, pc_list, first_revert,
            revert_map, revert_at, revert_nodes, stamped, branch_map>>

\* an uncaught exception leaves generate_coverage_data and generate_build_json
Raise(e) ==
    /\ ctl' = "raised"
    /\ error' = e

\* pc_list.append({'op': op, 'pc': pc})
NewStep(op, at) ==
    [op |-> op, pc |-> at, first_revert |-> FALSE, jump |-> None, value |-> None,
     path |-> None, offset |-> None, fn |-> None, statement |-> None,
     branch |-> None, jump_revert |-> FALSE]

\* statement_nodes[i].copy() for i in paths
CopyNodes(nodes) == [p \in paths |-> nodes[p]]

\* set(i.offset for i in branch_nodes[i]) for i in paths
BranchOffsets(nodes) == [p \in paths |-> {b.offset : b \in nodes[p]}]

(***************************************************************************)
(* generate_build_json's call of generate_coverage_data, up to the walk    *)
(***************************************************************************)
Call ==
    /\ ctl = "idle"
    /\ UNCHANGED <<extractor, gas, fetchers>>
    /\ contracts # <<>>
    /\ evm' = Head(contracts)
    /\ contracts' = Tail(contracts)
    /\ UNCHANGED <<shared_statement_nodes, shared_branch_nodes>>
    /\ IF Head(contracts).opcodes = ""
       THEN /\ build' = Append(build, [deployedSourceMap |-> Head(contracts).sourceMap,
                                       opcodes |-> Head(contracts).opcodes,
                                       pcMap |-> <<>>, statements |-> <<>>,
                                       branches |-> <<>>])
            /\ UNCHANGED <<ctl, error>>
            /\ UNCHANGED locals
       ELSE LET expanded == expand_source_map(Head(contracts).sourceMap)
            IN  IF expanded.err # None
                THEN /\ Raise(expanded.err)
                     /\ UNCHANGED build
                     /\ UNCHANGED locals
                ELSE /\ source_map' = expanded.val
                     /\ opcodes' = split(Head(contracts).opcodes, " ")
                     /\ statement_nodes' = CopyNodes(shared_statement_nodes)
                     /\ statement_map' = [p \in paths |-> {}]
                     /\ branch_original' = CopyNodes(shared_branch_nodes)
                     /\ branch_nodes' = BranchOffsets(shared_branch_nodes)
                     /\ branch_active' = [p \in paths |-> <<>>]
                     /\ branch_set' = [p \in paths |-> <<>>]
                     /\ count' = 0
                     /\ pc' = 0
                     /\ pc_list' = <<>>
                     /\ first_revert' = None
                     /\ revert_map' = <<>>
                     /\ revert_at' = 1
                     /\ revert_nodes' = <<>>
                     /\ stamped' = <<>>
                     /\ branch_map' = [p \in paths |-> {}]
                     /\ ctl' = "walk"
                     /\ UNCHANGED <<build, error>>

(***************************************************************************)
(* One iteration of the walk, `while source_map:`                          *)
(***************************************************************************)

\* [i['op'] for i in pc_list[-4:-1]], pc_list being the list after the append
OpsBefore(list) ==
    LET n == Len(list)
    IN  [k \in 1..(IF n < 3 THEN n ELSE 3) |-> list[Max(0, n - 3) + k].op]

\* a faulty sentinel: the pc of the REVERT itself
RevertTargetHere(at) == "0x" \o StrFrom(upper(hex(at)), 2)

\* "0x"+hex(pc-4).upper()[2:]
RevertTarget(at) == "0x" \o StrFrom(upper(hex(at - 4)), 2)

\* a faulty resolution that records the JUMPI index as the armed index
ResolveAtJumpi(active, set, jumpi) ==
    set \o [k \in 1..Len(active) |-> <<active[k][1], <<jumpi, jumpi>>>>]

\* the loop `for offset in branch_active[path]: branch_set[path][offset] = ...`
RECURSIVE ResolveActive(_, _, _)
ResolveActive(active, set, jumpi) ==
    IF active = <<>> THEN set
    ELSE ResolveActive(Tail(active),
                       DictSet(set, Head(active)[1], <<Head(active)[2], jumpi>>),
                       jumpi)

\* the name `offset` after lines 293-304: the loop of line 295 rebinds it
OffsetAfterResolve(active, offset) == active[Len(active)][1]

\* a faulty walk that counts one byte for every operand
OneByte(op) == 1

\* int(pc_list[-1]['op'][4:]), line 279: the operand width of PUSHN
OperandWidth(op) == int(StrFrom(op, 4))

\* lines 261-304: everything before the try block.  `stop` says why the
\* iteration is over already ("raise", "continue") or None.
StepHead ==
    LET source == Head(source_map)
        n == Len(pc_list)
        op == Head(opcodes)
        flag == /\ first_revert = None
                /\ op = "REVERT"
                /\ OpsBefore(pc_list) = <<"JUMPDEST", "PUSH1", "DUP1">>
        first_revert1 == IF flag THEN <<RevertTarget(pc)>> ELSE first_revert
        opcodes1 == Tail(opcodes)
        has_value == StrTo(Head(opcodes1), 2) = "0x"
        opcodes2 == IF has_value THEN Tail(opcodes1) ELSE opcodes1
        pc1 == pc + 1 + (IF has_value THEN OperandWidth(op) ELSE 0)
        step1 == [NewStep(op, pc) EXCEPT
                    !.first_revert = flag,
                    !.jump = IF source[4] # <<"-">> THEN <<source[4]>> ELSE None,
                    !.value = IF has_value THEN <<Head(opcodes1)>> ELSE None]
        path == source_nodes[source[3][1]]
        step2 == [step1 EXCEPT !.path = <<path>>]
        offset0 == <<source[1][1], source[1][1] + source[2][1]>>
        step3 == [step2 EXCEPT !.offset = offset0]
        active == branch_active[path]
        resolving == active # <<>> /\ op = "JUMPI"
        arming == ~resolving /\ offset0 \in branch_nodes[path]
        base == [stop |-> None, err |-> None, step |-> NewStep("", 0),
                 first_revert |-> first_revert, opcodes |-> opcodes, pc |-> pc,
                 path |-> "", sid |-> 0, offset |-> None,
                 branch_active |-> branch_active, branch_set |-> branch_set]
        done1 == [base EXCEPT !.first_revert = first_revert1, !.opcodes = opcodes2,
                              !.pc = pc1]
    IN  IF opcodes = <<>>
        THEN [base EXCEPT !.stop = <<"raise">>, !.err = Raised("IndexError", 262)]
        ELSE IF source = None
        THEN [base EXCEPT !.stop = <<"raise">>, !.err = Raised("TypeError", 273)]
        ELSE IF opcodes1 = <<>>
        THEN [base EXCEPT !.stop = <<"raise">>, !.err = Raised("IndexError", 277)]
        ELSE IF has_value /\ ~IsNumeral(StrFrom(op, 4))
        THEN [base EXCEPT !.stop = <<"raise">>, !.err = Raised("ValueError", 279)]
        ELSE IF source[3] = <<-1>>
        THEN [done1 EXCEPT !.stop = <<"continue">>, !.step = step1]
        ELSE IF source[3] = None \/ source[3][1] \notin DOMAIN source_nodes
        THEN [base EXCEPT !.stop = <<"raise">>, !.err = Raised("KeyError", 284)]
        ELSE IF source[1] = <<-1>>
        THEN [done1 EXCEPT !.stop = <<"continue">>, !.step = step2]
        ELSE IF source[1] = None \/ source[2] = None
        THEN [base EXCEPT !.stop = <<"raise">>, !.err = Raised("TypeError", 290)]
        ELSE [done1 EXCEPT
                !.step = step3,
                !.path = path,
                !.sid = source[3][1],
                !.offset = IF resolving THEN OffsetAfterResolve(active, offset0)
                           ELSE offset0,
                !.branch_set =
                    IF resolving
                    THEN [branch_set EXCEPT ![path] = ResolveActive(active, @, n)]
                    ELSE IF arming
                    THEN [branch_set EXCEPT ![path] = DictDel(@, offset0)]
                    ELSE branch_set,
                !.branch_active =
                    IF resolving THEN [branch_active EXCEPT ![path] = <<>>]
                    ELSE IF arming
                    THEN [branch_active EXCEPT ![path] = DictSet(@, offset0, n)]
                    ELSE branch_active]

\* whether line 308 takes the function label of the step before
InheritsFn(offset) ==
    /\ pc_list[Len(pc_list)].offset # None
    /\ offset = pc_list[Len(pc_list)].offset

\* the statements `next(i for i in statement_nodes[path] if ...)` can give:
\* the set is iterated in no order the code fixes
StatementChoices(h) ==
    IF h.stop # None \/ pc_list = <<>> THEN {None}
    ELSE IF InheritsFn(h.offset) THEN {None}
    ELSE IF FunctionsAround(h.path, h.offset) = <<>> THEN {None}
    ELSE LET found == {i \in statement_nodes[h.path] : is_inside_offset(h.offset, i)}
         IN  IF found = {} THEN {None} ELSE found

\* a faulty walk that leaves a matched candidate in the working set
DiscardNothing(nodes, path, statement) == nodes

\* statement_nodes[path].discard(statement)
Discard(nodes, path, statement) == [nodes EXCEPT ![path] = @ \ {statement}]

\* a faulty walk that consumes candidates of the caller's collection (no copy)
DiscardShared(shared, path, statement) == [shared EXCEPT ![path] = @ \ {statement}]

\* line 320 on the caller's collection: line 242 copied it, so none
SharedAfterDiscard(shared, path, statement) == shared

\* lines 306-325: the try block.  [fn, statement], each optional
TryBlock(h, statement) ==
    IF pc_list = <<>>
    THEN [fn |-> None, statement |-> None]           \* pc_list[-2]: IndexError
    ELSE IF InheritsFn(h.offset)
    THEN [fn |-> pc_list[Len(pc_list)].fn, statement |-> None]   \* KeyError leaves no fn
    ELSE IF FunctionsAround(h.path, h.offset) = <<>>
    THEN [fn |-> None, statement |-> None]           \* [0]: IndexError
    ELSE [fn |-> <<FunctionsAround(h.path, h.offset)[1].full_name>>,
          statement |-> statement]                   \* None: StopIteration

\* revert_map.setdefault(key, []).append(index)
RevertMapAppend(map, key, index) ==
    DictSet(map, key,
            Append(IF key \in DictKeys(map) THEN DictGet(map, key) ELSE <<>>, index))

\* line 330: the index recorded for a jump to the first revert
RevertJumpIndex(list) == Len(list)

\* a faulty walk whose loop leaves the entry it read at the head of the deque
peek(deque) == deque

\* what source_map.popleft() leaves in the deque (line 261)
popleft(deque) == Tail(deque)

WalkStep ==
    /\ ctl = "walk"
    /\ UNCHANGED <<extractor, gas, fetchers>>
    /\ UNCHANGED <<contracts, build, shared_branch_nodes, evm, branch_original,
                   branch_nodes, revert_at, revert_nodes, stamped, branch_map>>
    /\ IF source_map = <<>>
       THEN /\ ctl' = "reconcile"
            /\ UNCHANGED <<error, shared_statement_nodes, source_map, opcodes,
                           statement_nodes, statement_map, branch_active, branch_set,
                           count, pc, pc_list, first_revert, revert_map>>
       ELSE LET h == StepHead
            IN  \E statement \in StatementChoices(h) :
                LET t == TryBlock(h, statement)
                    step == IF h.stop # None THEN h.step
                            ELSE [h.step EXCEPT !.fn = t.fn,
                                                !.statement = IF t.statement = None
                                                              THEN None ELSE <<count>>]
                    list == Append(pc_list, step)
                    tracked == /\ h.stop = None
                               /\ step.value # None
                               /\ step.value = h.first_revert
                    jumps == tracked /\ h.opcodes # <<>>
                                     /\ Head(h.opcodes) \in {"JUMP", "JUMPI"}
                    err == IF h.stop = <<"raise">> THEN h.err
                           ELSE IF tracked /\ h.opcodes = <<>>
                           THEN Raised("IndexError", 328)
                           ELSE IF jumps /\ step.fn = None
                           THEN Raised("KeyError", 330)
                           ELSE None
                IN  IF err # None
                    THEN /\ Raise(err)
                         /\ UNCHANGED <<shared_statement_nodes, source_map, opcodes,
                                        statement_nodes, statement_map, branch_active,
                                        branch_set, count, pc, pc_list, first_revert,
                                        revert_map>>
                    ELSE /\ source_map' = popleft(source_map)
                         /\ opcodes' = h.opcodes
                         /\ pc' = h.pc
                         /\ first_revert' = h.first_revert
                         /\ branch_active' = h.branch_active
                         /\ branch_set' = h.branch_set
                         /\ pc_list' = list
                         /\ IF t.statement # None /\ h.stop = None
                            THEN /\ statement_nodes' =
                                        Discard(statement_nodes, h.path, t.statement)
                                 /\ shared_statement_nodes' =
                                        SharedAfterDiscard(shared_statement_nodes,
                                                           h.path, t.statement)
                                 /\ statement_map' =
                                        [statement_map EXCEPT ![h.path] =
                                            MapPut(@, t.fn[1], count, t.statement)]
                                 /\ count' = count + 1
                            ELSE UNCHANGED <<shared_statement_nodes, statement_nodes,
                                             statement_map, count>>
                         /\ revert_map' =
                                IF jumps
                                THEN RevertMapAppend(revert_map, <<h.path, step.fn[1]>>,
                                                     RevertJumpIndex(list))
                                ELSE revert_map
                         /\ UNCHANGED <<ctl, error>>

(***************************************************************************)
(* The revert reconciliation pass: one iteration of the loop over          *)
(* revert_map.items()                                                      *)
(***************************************************************************)

MaxRevertNodes == 3

\* The revert FunctionCall nodes a function can hold, in tree order: a call
\* without arguments at a source range of its own ("bare"), one with
\* arguments ("args"), and one without arguments at the range <<10, 12>>,
\* which instructions of the stream carry ("mapped").
RevertNodeKinds == {"bare", "args", "mapped"}

RevertNodeAt(kind, k) ==
    [offset |-> IF kind = "mapped" THEN <<10, 12>> ELSE <<20 + k, 30 + k>>,
     arguments |-> kind = "args"]

\* fn_node.children(filters={'node_type': "FunctionCall", 'name': "revert"})
RevertNodeLists ==
    LET kinds == UNION {[1..n -> RevertNodeKinds] : n \in 0..MaxRevertNodes}
        once(x, kind) == Cardinality({k \in 1..Len(x) : x[k] = kind}) <= 1
    IN  {[k \in 1..Len(ks) |-> RevertNodeAt(ks[k], k)] :
            ks \in {x \in kinds : once(x, "mapped") /\ once(x, "args")}}

\* next((x for x in pc_list if 'offset' in x and x['offset'] == offset), False)
OffsetInMap(list, offset) ==
    \E k \in 1..Len(list) : list[k].offset # None /\ list[k].offset = offset

\* a faulty reconciliation that claims a recorded step without deleting it
DelNothing(values) == values

\* del values[0]
DelFirst(values) == Tail(values)

\* the loop over the nodes of one function, lines 341-349
RECURSIVE ReconcileNodes(_, _, _, _)
ReconcileNodes(nodes, list, values, stamps) ==
    IF nodes = <<>>
    THEN [err |-> None, pc_list |-> list, values |-> values, stamps |-> stamps]
    ELSE LET node == Head(nodes)
         IN  IF node.arguments \/ OffsetInMap(list, node.offset)
             THEN ReconcileNodes(Tail(nodes), list, values, stamps)
             ELSE IF values = <<>> \/ values[1] >= Len(list)
             THEN [err |-> Raised("IndexError", 345), pc_list |-> list,
                   values |-> values, stamps |-> stamps]
             ELSE ReconcileNodes(
                    Tail(nodes),
                    [list EXCEPT ![values[1] + 1] =
                        [@ EXCEPT !.offset = node.offset, !.jump_revert = TRUE]],
                    DelFirst(values),
                    Append(stamps, <<node.offset, values[1]>>))

ReconcileStep ==
    /\ ctl = "reconcile"
    /\ UNCHANGED <<extractor, gas, fetchers>>
    /\ UNCHANGED <<contracts, build, shared_statement_nodes, shared_branch_nodes, evm,
                   source_map, opcodes, statement_nodes, statement_map, branch_original,
                   branch_nodes, branch_active, branch_set, count, pc, first_revert,
                   branch_map>>
    /\ IF revert_at > Len(revert_map)
       THEN /\ ctl' = "finalize"
            /\ UNCHANGED <<error, pc_list, revert_map, revert_at, revert_nodes, stamped>>
       ELSE LET key == revert_map[revert_at][1]
                values == revert_map[revert_at][2]
            IN  IF FunctionsNamed(key[1], key[2]) = <<>>
                THEN /\ Raise(Raised("IndexError", 338))
                     /\ UNCHANGED <<pc_list, revert_map, revert_at, revert_nodes, stamped>>
                ELSE \E nodes \in RevertNodeLists :
                     LET r == ReconcileNodes(nodes, pc_list, values, <<>>)
                     IN  /\ revert_nodes' = nodes
                         /\ IF r.err # None
                            THEN /\ Raise(r.err)
                                 /\ UNCHANGED <<pc_list, revert_map, revert_at, stamped>>
                            ELSE /\ pc_list' = r.pc_list
                                 /\ revert_map' =
                                      [revert_map EXCEPT ![revert_at] = <<key, r.values>>]
                                 /\ stamped' = Append(stamped, <<key, r.stamps>>)
                                 /\ revert_at' = revert_at + 1
                                 /\ UNCHANGED <<ctl, error>>

(***************************************************************************)
(* The branch finalizer, lines 351-368                                     *)
(***************************************************************************)

\* the orders in which the set `paths` can be iterated
PathOrders == {o \in [1..Cardinality(paths) -> paths] : Range(o) = paths}

\* [(k, x, y) for k, v in branch_set.items() for x, y in v.items()]
RECURSIVE BranchItems(_, _)
BranchItems(order, set) ==
    IF order = <<>> THEN <<>>
    ELSE [k \in 1..Len(set[Head(order)]) |->
            <<Head(order), set[Head(order)][k][1], set[Head(order)][k][2]>>]
         \o BranchItems(Tail(order), set)

\* next(i for i in branch_original[path] if i.offset == offset)
BranchNode(original, path, offset) == CHOOSE b \in original[path] : b.offset = offset

\* a faulty finalizer that leaves a gap after every branch index
SkipBranchCount(c) == c + 2

\* a faulty finalizer that numbers every branch alike
SameBranchCount(c) == c

\* count += 1, line 368
NextBranchCount(c) == c + 1

RECURSIVE FinalizeFrom(_, _, _, _)
FinalizeFrom(items, list, map, c) ==
    IF items = <<>>
    THEN [err |-> None, pc_list |-> list, branch_map |-> map, count |-> c]
    ELSE LET path == Head(items)[1]
             offset == Head(items)[2]
             idx == Head(items)[3]
             list1 == [list EXCEPT ![idx[1] + 1] = [@ EXCEPT !.branch = <<c>>]]
             list2 == [list1 EXCEPT ![idx[2] + 1] = [@ EXCEPT !.branch = <<c>>]]
         IN  IF list2[idx[1] + 1].fn = None
             THEN \* source_nodes is keyed by contract_id, not by path
                  [err |-> Raised("KeyError", 361), pc_list |-> list2,
                   branch_map |-> map, count |-> c]
             ELSE FinalizeFrom(
                    Tail(items), list2,
                    [map EXCEPT ![path] =
                        MapPut(@, list2[idx[1] + 1].fn[1], c,
                               <<offset[1], offset[2],
                                 BranchNode(branch_original, path, offset).jump>>)],
                    NextBranchCount(c))

Finalize ==
    /\ ctl = "finalize"
    /\ UNCHANGED <<extractor, gas, fetchers>>
    /\ UNCHANGED <<contracts, build, shared_statement_nodes, shared_branch_nodes, evm,
                   source_map, opcodes, statement_nodes, statement_map, branch_original,
                   branch_nodes, branch_active, branch_set, pc, first_revert,
                   revert_map, revert_at, revert_nodes, stamped>>
    /\ \E order \in PathOrders :
        LET r == FinalizeFrom(BranchItems(order, branch_set), pc_list,
                              [p \in paths |-> {}], count)
        IN  IF r.err # None
            THEN /\ Raise(r.err)
                 /\ UNCHANGED <<pc_list, branch_map, count>>
            ELSE /\ pc_list' = r.pc_list
                 /\ branch_map' = r.branch_map
                 /\ count' = r.count
                 /\ ctl' = "return"
                 /\ UNCHANGED error

(***************************************************************************)
(* lines 370-371, and generate_build_json taking the three maps            *)
(***************************************************************************)

\* i after i.pop('pc')
WithoutPc(x) ==
    [op |-> x.op, first_revert |-> x.first_revert, jump |-> x.jump, value |-> x.value,
     path |-> x.path, offset |-> x.offset, fn |-> x.fn, statement |-> x.statement,
     branch |-> x.branch, jump_revert |-> x.jump_revert]

\* dict((i.pop('pc'), i) for i in pc_list): a later step with the same pc wins
PcMap(list) ==
    [p \in {list[k].pc : k \in 1..Len(list)} |->
        WithoutPc(list[CHOOSE k \in 1..Len(list) :
                        /\ list[k].pc = p
                        /\ \A j \in 1..Len(list) : list[j].pc = p => j <= k])]

Return ==
    /\ ctl = "return"
    /\ UNCHANGED <<extractor, gas, fetchers>>
    /\ build' = Append(build, [deployedSourceMap |-> evm.sourceMap,
                               opcodes |-> evm.opcodes,
                               pcMap |-> PcMap(pc_list),
                               statements |-> statement_map,
                               branches |-> branch_map])
    /\ ctl' = "idle"
    /\ UNCHANGED <<contracts, shared_statement_nodes, shared_branch_nodes, error, evm>>
    /\ UNCHANGED locals

Next == Call \/ WalkStep \/ ReconcileStep \/ Finalize \/ Return

(***************************************************************************)
(* get_branch_nodes: _get_recursive_branches on one require call, if       *)
(* statement or conditional.  The condition is a tree of syntax nodes; a   *)
(* node is named by its place in the tree: the condition is node 1, the    *)
(* left operand of node i is node 2i and its right operand node 2i+1.  The *)
(* tree is the function from the places it holds to the kind of node       *)
(* there: "||" and "&&" are the BinaryOperation nodes of type bool with    *)
(* these operators, "==" is a BinaryOperation of type bool with another    *)
(* operator, "id" is an expression without operands.                       *)
(***************************************************************************)

MaxDepth == 2

\* the operators of the `filters` of lines 429-432
BoolOperators == {"||", "&&"}

\* {'node_type': "BinaryOperation", 'type': "bool"}, lines 460 and 467
BoolBinaries == {"||", "&&", "=="}

\* node.depth - base_node.depth - 1
Level(i) == CHOOSE l \in 0..(MaxDepth + 1) : 2^l <= i /\ i < 2^(l + 1)

\* `for x in i`: the operands of node i
Operands(tree, i) == {c \in {2 * i, 2 * i + 1} : c \in DOMAIN tree}

\* node.parents(depth, ...) before filtering: nearest first, up to the condition
Ancestors(i) == [k \in 1..Level(i) |-> i \div (2^k)]

\* node == other or node.is_child_of(other)
IsOrDescendsFrom(i, other) ==
    i = other \/ \E k \in 1..Level(i) : Ancestors(i)[k] = other

\* node.children(include_self=True, filters=filters): the && and || nodes at or below i
BinariesIn(tree, i) ==
    {b \in DOMAIN tree : tree[b] \in BoolOperators /\ IsOrDescendsFrom(b, i)}

\* node.parents(depth, {'node_type': "BinaryOperation", 'type': "bool"})
BoolParents(tree, i) == SelectSeq(Ancestors(i), LAMBDA a : tree[a] \in BoolBinaries)

\* the parents of which node i is the left operand or below it, line 461 and 468
LeftParents(tree, i) ==
    SelectSeq(BoolParents(tree, i), LAMBDA a : IsOrDescendsFrom(i, 2 * a))

_is_rightmost_operation(tree, i) == LeftParents(tree, i) = <<>>

_check_left_operator(tree, i) == tree[Head(LeftParents(tree, i))] = "||"

\* the set of (node, node.jump) returned
_get_recursive_branches(base) ==
    LET jump == base.node_type = "FunctionCall"
        tree == base.condition
        all_binaries == BinariesIn(tree, 1)
    IN  IF all_binaries = {}
        THEN {[node |-> 1, jump |-> jump]}
        ELSE {[node |-> x,
               jump |-> IF _is_rightmost_operation(tree, x) THEN jump
                        ELSE _check_left_operator(tree, x)] :
                x \in {c \in UNION {Operands(tree, b) : b \in all_binaries} :
                            BinariesIn(tree, c) = {}}}

GetRecursiveBranches ==
    /\ binary_branches = None
    /\ base_node.node_type # ""
    /\ binary_branches' = <<_get_recursive_branches(base_node)>>
    /\ UNCHANGED base_node
    /\ UNCHANGED <<gas, fetchers>>
    /\ UNCHANGED <<contracts, build, shared_statement_nodes, shared_branch_nodes, ctl,
                   error, evm>>
    /\ UNCHANGED locals

NextBranches == GetRecursiveBranches

\* the place of node j of an operand once the operand is the left (side 0)
\* or right (side 1) operand of the root
Below(j, side) == j + (2^Level(j)) * (1 + side)

\* the tree with `kind` at the root and the operands l and r
Graft(kind, l, r) ==
    LET left == {Below(j, 0) : j \in DOMAIN l}
        right == {Below(j, 1) : j \in DOMAIN r}
    IN  [i \in {1} \cup left \cup right |->
            IF i = 1 THEN kind
            ELSE IF i \in left THEN l[CHOOSE j \in DOMAIN l : Below(j, 0) = i]
            ELSE r[CHOOSE j \in DOMAIN r : Below(j, 1) = i]]

\* the conditions of at most d levels of operators
RECURSIVE Conditions(_)
Conditions(d) ==
    IF d = 0 THEN {<<"id">>}
    ELSE LET sub == Conditions(d - 1)
         IN  {<<"id">>} \cup {Graft(kind, l, r) : kind \in BoolBinaries, l \in sub, r \in sub}

\* require(...) is a FunctionCall; an if statement and a conditional have a condition
BaseNodes ==
    {[node_type |-> type, condition |-> tree] :
        type \in {"FunctionCall", "IfStatement", "Conditional"},
        tree \in Conditions(MaxDepth)}

ExtractorIdle ==
    /\ base_node = [node_type |-> "", condition |-> <<>>]
    /\ binary_branches = None

(***************************************************************************)
(* network/gas/strategies.py: the GasNow price cache and                   *)
(* GasNowScalingStrategy with its default speeds ("standard", "rapid") and *)
(* increment (1.125).  One thread calls; time is counted in seconds and    *)
(* passes in steps of SleepSeconds.  Of the prices the API returns, the    *)
(* cache is modelled with the two the strategy reads.                      *)
(***************************************************************************)

MaxTime == 80

FreshSeconds == 15
Attempts == 12
SleepSeconds == 5

\* self.initial_speed, self.max_speed
initial_speed == "standard"
max_speed == "rapid"

\* int(last_gas_price * self.increment) for increment = 1.125 = 9/8
Incremented(last) == (last * 9) \div 8

\* response.json()["data"] without its timestamp: the prices of a 200 response
ApiPrices == {[standard |-> 8, rapid |-> 8], [standard |-> 8, rapid |-> 9],
              [standard |-> 9, rapid |-> 9]}

\* what one call _fetch_gasnow(key) at time t can do: of the Attempts
\* responses, `failed` are not 200 (each is followed by a sleep), and
\* `before` of these precede the last 200 response, whose data is kept
_fetch_gasnow(t, update, data, key) ==
    IF t - update > FreshSeconds
    THEN {[err |-> Raised("ValueError", 30), now |-> t + SleepSeconds * Attempts,
           update |-> update, data |-> data, value |-> 0]}
         \cup
         {[err |-> None, now |-> t + SleepSeconds * failed,
           update |-> t + SleepSeconds * before, data |-> <<d>>, value |-> d[key]] :
            failed \in 0..(Attempts - 1), before \in 0..(Attempts - 1), d \in ApiPrices}
    ELSE {[err |-> None, now |-> t, update |-> update, data |-> data,
           value |-> data[1][key]]}

\* the outcomes that the clock of the model can show
FetchOutcomes(t, update, data, key) ==
    {o \in _fetch_gasnow(t, update, data, key) :
        o.now <= MaxTime /\ o.update <= o.now}

\* GasNowScalingStrategy.get_gas_price: the price of the first transaction
GetGasPrice ==
    /\ gas_error = None
    /\ gas_price = None
    /\ \E o \in FetchOutcomes(now, _gasnow_update, _gasnow_data, initial_speed) :
        /\ now' = o.now
        /\ _gasnow_update' = o.update
        /\ _gasnow_data' = o.data
        /\ gas_error' = o.err
        /\ gas_price' = IF o.err = None THEN <<o.value>> ELSE None
    /\ UNCHANGED <<last_gas_price, fetched>>
    /\ UNCHANGED <<extractor, fetchers>>
    /\ UNCHANGED <<contracts, build, shared_statement_nodes, shared_branch_nodes, ctl,
                   error, evm>>
    /\ UNCHANGED locals

\* min(max_gas_price, new_gas_price), line 94
CappedPrice(max_gas_price, new_gas_price) ==
    IF max_gas_price < new_gas_price THEN max_gas_price ELSE new_gas_price

\* GasNowScalingStrategy.update_gas_price(last_gas_price, elapsed_blocks),
\* called with the price of the pending transaction
UpdateGasPrice ==
    /\ gas_error = None
    /\ gas_price # None
    /\ last_gas_price' = gas_price[1]
    /\ \E o1 \in FetchOutcomes(now, _gasnow_update, _gasnow_data, initial_speed) :
        IF o1.err # None
        THEN /\ now' = o1.now
             /\ gas_error' = o1.err
             /\ UNCHANGED <<_gasnow_update, _gasnow_data, fetched, gas_price>>
        ELSE \E o2 \in FetchOutcomes(o1.now, o1.update, o1.data, max_speed) :
             /\ now' = o2.now
             /\ _gasnow_update' = o2.update
             /\ _gasnow_data' = o2.data
             /\ gas_error' = o2.err
             /\ IF o2.err # None
                THEN UNCHANGED <<fetched, gas_price>>
                ELSE LET initial_gas_price == o1.value
                         max_gas_price == o2.value
                         incremented_gas_price == Incremented(gas_price[1])
                         new_gas_price == Max(initial_gas_price, incremented_gas_price)
                     IN  /\ fetched' = <<initial_gas_price, max_gas_price>>
                         /\ gas_price' = <<CappedPrice(max_gas_price, new_gas_price)>>
    /\ UNCHANGED <<extractor, fetchers>>
    /\ UNCHANGED <<contracts, build, shared_statement_nodes, shared_branch_nodes, ctl,
                   error, evm>>
    /\ UNCHANGED locals

\* time passes between two calls
GasTick ==
    /\ gas_error = None
    /\ now + SleepSeconds <= MaxTime
    /\ now' = now + SleepSeconds
    /\ UNCHANGED <<_gasnow_update, _gasnow_data, last_gas_price, fetched, gas_price,
                   gas_error>>
    /\ UNCHANGED <<extractor, fetchers>>
    /\ UNCHANGED <<contracts, build, shared_statement_nodes, shared_branch_nodes, ctl,
                   error, evm>>
    /\ UNCHANGED locals

NextGas == GetGasPrice \/ UpdateGasPrice \/ GasTick

\* no strategy is in use
GasIdle ==
    /\ now = 0
    /\ _gasnow_update = 0
    /\ _gasnow_data = None
    /\ last_gas_price = 0
    /\ fetched = <<0, 0>>
    /\ gas_price = None
    /\ gas_error = None

(***************************************************************************)
(* _fetch_gasnow called by several threads, statement by statement.  A     *)
(* thread is at "idle" (not in the function), "acquire" (line 19, waiting  *)
(* for the lock), "check" (line 20), "request" (lines 22-25), "sleep"      *)
(* (line 27), "store" (lines 29-32), "return" (line 34) or "raised".  The  *)
(* clock of the API is the local clock.                                    *)
(***************************************************************************)

NumThreads == 2

\* the calls one thread makes
MaxCalls == 1

Threads == 1..NumThreads

\* a thread outside _fetch_gasnow
NotCalling ==
    [at |-> "idle", key |-> "", i |-> 0, data |-> None, sent |-> 0, fresh |-> FALSE,
     wake |-> 0, result |-> None, calls |-> 0]

\* the cache and the clock are all the fetchers change of the strategies' state
FetchFrame ==
    /\ UNCHANGED <<last_gas_price, fetched, gas_price, gas_error>>
    /\ UNCHANGED extractor
    /\ UNCHANGED <<contracts, build, shared_statement_nodes, shared_branch_nodes, ctl,
                   error, evm>>
    /\ UNCHANGED locals

\* thread t calls _fetch_gasnow(key)
FetchCall(t) ==
    /\ callers[t].at \in {"idle", "raised"}
    /\ callers[t].calls < MaxCalls
    /\ \E key \in {initial_speed, max_speed} :
        callers' = [callers EXCEPT ![t] = [NotCalling EXCEPT !.at = "acquire", !.key = key,
                                                            !.calls = callers[t].calls + 1]]
    /\ UNCHANGED <<now, _gasnow_update, _gasnow_data, _gasnow_lock>>
    /\ FetchFrame

\* with _gasnow_lock: (line 19)
FetchAcquire(t) ==
    /\ callers[t].at = "acquire"
    /\ _gasnow_lock = None
    /\ _gasnow_lock' = <<t>>
    /\ callers' = [callers EXCEPT ![t].at = "check"]
    /\ UNCHANGED <<now, _gasnow_update, _gasnow_data>>
    /\ FetchFrame

\* if time.time() - _gasnow_update > 15: (lines 20-21)
FetchCheck(t) ==
    /\ callers[t].at = "check"
    /\ IF now - _gasnow_update > FreshSeconds
       THEN /\ callers' = [callers EXCEPT ![t].at = "request", ![t].i = 0,
                                          ![t].data = None]
            /\ UNCHANGED _gasnow_lock
       ELSE /\ callers' = [callers EXCEPT ![t].at = "return", ![t].fresh = TRUE]
            /\ _gasnow_lock' = None
    /\ UNCHANGED <<now, _gasnow_update, _gasnow_data>>
    /\ FetchFrame

\* one iteration of `for i in range(12)`: the request and what follows from
\* its status (lines 22-28)
FetchRequest(t) ==
    /\ callers[t].at = "request"
    /\ callers[t].i < Attempts
    /\ \/ \* response.status_code != 200
          callers' = [callers EXCEPT ![t].at = "sleep", ![t].i = @ + 1,
                                     ![t].sent = @ + 1,
                                     ![t].wake = now + SleepSeconds]
       \/ \* data = response.json()["data"]
          \E d \in ApiPrices :
            callers' = [callers EXCEPT ![t].i = @ + 1, ![t].sent = @ + 1,
                                       ![t].data = <<[prices |-> d,
                                                      timestamp |-> now * 1000]>>]
    /\ UNCHANGED <<now, _gasnow_update, _gasnow_data, _gasnow_lock>>
    /\ FetchFrame

\* time.sleep(5) is over (line 27)
FetchWake(t) ==
    /\ callers[t].at = "sleep"
    /\ now >= callers[t].wake
    /\ callers' = [callers EXCEPT ![t].at = "request", ![t].wake = 0]
    /\ UNCHANGED <<now, _gasnow_update, _gasnow_data, _gasnow_lock>>
    /\ FetchFrame

\* after the loop: raise ValueError, or write the cache; either way the with
\* block is left and the lock released (lines 29-32)
FetchStore(t) ==
    /\ callers[t].at = "request"
    /\ callers[t].i = Attempts
    /\ _gasnow_lock' = None
    /\ IF callers[t].data = None
       THEN /\ callers' = [callers EXCEPT ![t].at = "raised"]
            /\ UNCHANGED <<_gasnow_update, _gasnow_data>>
       ELSE /\ _gasnow_update' = callers[t].data[1].timestamp \div 1000
            /\ _gasnow_data' = <<callers[t].data[1].prices>>
            /\ callers' = [callers EXCEPT ![t].at = "return"]
    /\ UNCHANGED now
    /\ FetchFrame

\* return _gasnow_data[key] (line 34)
FetchReturn(t) ==
    /\ callers[t].at = "return"
    /\ callers' = [callers EXCEPT ![t] =
                        [NotCalling EXCEPT !.calls = callers[t].calls,
                                           !.result = <<_gasnow_data[1][callers[t].key]>>]]
    /\ UNCHANGED <<now, _gasnow_update, _gasnow_data, _gasnow_lock>>
    /\ FetchFrame

\* time passes while a thread sleeps; the other statements take no time
FetchTick ==
    /\ now + SleepSeconds <= MaxTime
    /\ \E t \in Threads : callers[t].at = "sleep" /\ now < callers[t].wake
    /\ now' = now + SleepSeconds
    /\ UNCHANGED <<_gasnow_update, _gasnow_data, fetchers>>
    /\ FetchFrame

NextFetch ==
    \/ \E t \in Threads : FetchCall(t)
    \/ \E t \in Threads : FetchAcquire(t)
    \/ \E t \in Threads : FetchCheck(t)
    \/ \E t \in Threads : FetchRequest(t)
    \/ \E t \in Threads : FetchWake(t)
    \/ \E t \in Threads : FetchStore(t)
    \/ \E t \in Threads : FetchReturn(t)
    \/ FetchTick

\* no thread is in _fetch_gasnow
FetchersIdle ==
    /\ _gasnow_lock = None
    /\ callers = [t \in Threads |-> NotCalling]

(***************************************************************************)
(* Inputs: what solc hands over for one contract                           *)
(***************************************************************************)

MaxSteps == 3
MaxRows == 3
MaxTail == 4
MaxBuildSteps == 4

\* one instruction: its opcode tokens and its (uncompressed) source map entry
Instr(ops, entry) == [ops |-> ops, entry |-> entry]

SeqsUpTo(S, n) == UNION {[1..k -> S] : k \in 0..n}

\* evm['deployedBytecode']: the opcodes of `prefix` then `body`, each token
\* followed by a space (solc's format), and their entries joined by ";"
Contract(prefix, body) ==
    LET all == prefix \o body
    IN  [sourceMap |-> Join([k \in 1..Len(all) |-> all[k].entry], ";"),
         opcodes |-> Join([k \in 1..Len(all) |-> all[k].ops] \o <<"">>, " ")]

\* A.sol: <<4,6>> lies in the statements <<2,8>> and <<4,6>> of A.f;
\* <<3,4>> and <<5,6>> are branch nodes of A.f; <<60,70>> is a statement of
\* A.h; <<200,202>> lies in no function.  B.sol: <<200,202>> is a branch node
\* and a statement of B.g, <<7,8>> a statement of B.g.
WalkInstrs ==
    { Instr("PUSH1 0x4", "4:2:0:-"),
      Instr("JUMPI", "60:10:0:-"),
      Instr("DUP1", "3:1:0:-"),
      Instr("DUP2", "5:1:0:i"),
      Instr("SWAP1", "200:2:0:-"),
      Instr("DUP3", "200:2:1:-"),
      Instr("JUMPI", "7:1:1:-"),
      Instr("STOP", "-1:-1:-1:-") }

\* the stream opens as solc's does, with a push attributed to the whole contract
WalkPrefix == <<Instr("PUSH1 0x80", "0:300:0:-")>>

WalkContracts == {Contract(WalkPrefix, body) : body \in SeqsUpTo(WalkInstrs, MaxSteps)}

\* compressed rows: empty, full, fields omitted, fields empty, an empty jump
\* field before a modifier field, an empty jump field at the end
DecodeRows ==
    {"", "3:1:0:-", "4:2", "::1", "60:10:0::1", "200:::i", "5:1:0:", "-1:-1:-1"}

DecodeContracts ==
    {[sourceMap |-> Join(rows, ";"), opcodes |-> ops] :
        rows \in SeqsUpTo(DecodeRows, MaxRows) \ {<<>>},
        ops \in {"DUP1 JUMPI ", "PUSH1 0x4 DUP1 JUMPI"}}

\* the function selector's revert, JUMPDEST at pc 0, then jumps to it
RevertPrefix ==
    << Instr("JUMPDEST", "-1:-1:-1:-"), Instr("PUSH1 0x0", ""),
       Instr("DUP1", ""), Instr("REVERT", "") >>

RevertInstrs ==
    { Instr("PUSH1 0x0", "4:2:0:-"),
      Instr("JUMPI", "10:2:0:-"),
      Instr("PUSH1 0x0", "200:2:0:-") }

\* the last variant holds one opcode more than the source map has entries
RevertContracts ==
    LET bodies == SeqsUpTo(RevertInstrs, MaxTail)
    IN  {Contract(RevertPrefix, body) : body \in bodies}
        \cup {[Contract(RevertPrefix, body) EXCEPT !.opcodes = @ \o "JUMP "] :
                body \in bodies}

\* pushes of one, two and thirty-two bytes among operations without operand
PcInstrs ==
    { Instr("PUSH1 0x4", "4:2:0:-"),
      Instr("PUSH2 0x100", "3:1:0:-"),
      Instr("PUSH32 0xff", "200:2:1:-"),
      Instr("DUP1", "5:1:0:i"),
      Instr("JUMPI", "60:10:0:-"),
      Instr("STOP", "-1:-1:-1:-") }

PcContracts == {Contract(WalkPrefix, body) : body \in SeqsUpTo(PcInstrs, MaxSteps)}

MaxChunks == 3

\* the selector's revert without source attribution
PlainSelector ==
    << Instr("JUMPDEST", "-1:-1:-1:-"), Instr("PUSH1 0x0", "-1:-1:-1:-"),
       Instr("DUP1", "-1:-1:-1:-"), Instr("REVERT", "-1:-1:-1:-") >>

\* the same four opcodes attributed to a statement of A.f
AttributedSelector ==
    << Instr("JUMPDEST", "4:2:0:-"), Instr("PUSH1 0x0", "4:2:0:-"),
       Instr("DUP1", "4:2:0:-"), Instr("REVERT", "4:2:0:-") >>

\* runs of opcodes: a push of ten bytes, the two selectors, and two runs
\* that end in REVERT without the three opcodes before it
FirstRevertChunks ==
    { <<Instr("PUSH10 0x1", "0:300:0:-")>>,
      PlainSelector,
      AttributedSelector,
      << Instr("JUMPDEST", "3:1:0:-"), Instr("PUSH2 0x100", "3:1:0:-"),
         Instr("DUP1", "3:1:0:-"), Instr("REVERT", "3:1:0:-") >>,
      << Instr("PUSH1 0x0", "60:10:0:-"), Instr("DUP1", "60:10:0:-"),
         Instr("REVERT", "60:10:0:-") >> }

RECURSIVE Concat(_)
Concat(chunks) == IF chunks = <<>> THEN <<>> ELSE Head(chunks) \o Concat(Tail(chunks))

FirstRevertContracts ==
    {Contract(<<>>, Concat(chunks)) : chunks \in SeqsUpTo(FirstRevertChunks, MaxChunks) \ {<<>>}}

BuildInstrs ==
    { Instr("JUMPI", "60:10:0:-"),
      Instr("DUP1", "3:1:0:-"),
      Instr("DUP3", "200:2:1:-"),
      Instr("JUMPI", "7:1:1:-") }

BuildContracts ==
    {Contract(WalkPrefix, body) :
        body \in SeqsUpTo(BuildInstrs, MaxBuildSteps)}

(***************************************************************************)
(* generate_build_json before its loop, lines 133-138                      *)
(***************************************************************************)
BuildInit(runs) ==
    /\ contracts \in runs
    /\ build = <<>>
    /\ shared_statement_nodes = get_statement_nodes
    /\ shared_branch_nodes = get_branch_nodes
    /\ ctl = "idle"
    /\ error = None
    /\ evm = [sourceMap |-> "", opcodes |-> ""]
    /\ source_map = <<>>
    /\ opcodes = <<>>
    /\ statement_nodes = [p \in paths |-> {}]
    /\ statement_map = [p \in paths |-> {}]
    /\ branch_original = [p \in paths |-> {}]
    /\ branch_nodes = [p \in paths |-> {}]
    /\ branch_active = [p \in paths |-> <<>>]
    /\ branch_set = [p \in paths |-> <<>>]
    /\ count = 0
    /\ pc = 0
    /\ pc_list = <<>>
    /\ first_revert = None
    /\ revert_map = <<>>
    /\ revert_at = 1
    /\ revert_nodes = <<>>
    /\ stamped = <<>>
    /\ branch_map = [p \in paths |-> {}]

\* generate_build_json on `runs`; get_branch_nodes is not looked into
InitWith(runs) == ExtractorIdle /\ GasIdle /\ FetchersIdle /\ BuildInit(runs)

Init == InitWith({<<c>> : c \in WalkContracts})

InitDecode == InitWith({<<c>> : c \in DecodeContracts})

InitRevert == InitWith({<<c>> : c \in RevertContracts})

InitBuild == InitWith({<<c, c>> : c \in BuildContracts})

\* one contract, well-formed streams over WalkInstrs
Spec == Init /\ [][Next]_vars

\* one contract, compressed and malformed source maps
SpecDecode == InitDecode /\ [][Next]_vars

\* one contract whose stream jumps to the shared revert target
SpecRevert == InitRevert /\ [][Next]_vars

InitPc == InitWith({<<c>> : c \in PcContracts})

\* one contract whose pushes have operands of several widths
SpecPc == InitPc /\ [][Next]_vars

InitFirstRevert == InitWith({<<c>> : c \in FirstRevertContracts})

\* one contract whose stream holds selector reverts and near misses
SpecFirstRevert == InitFirstRevert /\ [][Next]_vars

\* the same contract processed twice against the same collections
SpecBuild == InitBuild /\ [][Next]_vars

InitTermination ==
    InitWith({<<c>> : c \in WalkContracts \cup DecodeContracts \cup RevertContracts})

\* the steps of generate_coverage_data after its call
Continue == WalkStep \/ ReconcileStep \/ Finalize \/ Return

\* one contract of any of the three kinds; the interpreter keeps executing
\* a call that has begun, which waits for nothing
SpecTermination == InitTermination /\ [][Next]_vars /\ WF_vars(Continue)

\* get_branch_nodes on one branch construct of a function; no contract is processed
InitBranches ==
    /\ BuildInit({<<>>})
    /\ GasIdle
    /\ FetchersIdle
    /\ base_node \in BaseNodes
    /\ binary_branches = None

SpecBranches == InitBranches /\ [][NextBranches]_vars

\* the module is imported (lines 11-13) some time after the epoch
InitGas ==
    /\ BuildInit({<<>>})
    /\ ExtractorIdle
    /\ FetchersIdle
    /\ now \in {20, 40}
    /\ _gasnow_update = 0
    /\ _gasnow_data = None
    /\ last_gas_price = 0
    /\ fetched = <<0, 0>>
    /\ gas_price = None
    /\ gas_error = None

SpecGas == InitGas /\ [][NextGas]_vars

\* several threads call _fetch_gasnow of the freshly imported module
SpecFetch == InitGas /\ [][NextFetch]_vars


(***************************************************************************)
(* Revert reconciliation: properties checked under SpecRevert              *)
(***************************************************************************)

\* the bare revert calls of `nodes` whose offset no step of `list` carries
LackingNodes(nodes, list) ==
    {k \in 1..Len(nodes) : ~nodes[k].arguments /\ ~OffsetInMap(list, nodes[k].offset)}

\* the function being reconciled has more bare revert calls without a step
\* than it has recorded revert jumps, every one of them an emitted step
Shortfall ==
    /\ revert_at <= Len(revert_map)
    /\ revert_nodes # <<>>
    /\ LET values == revert_map[revert_at][2]
       IN  /\ Len(values) < Cardinality(LackingNodes(revert_nodes, pc_list))
           /\ \A k \in 1..Len(values) : values[k] < Len(pc_list)

\* C1: when a function has more bare revert calls lacking a step (n) than
\* recorded revert-jump steps (k), reconciliation still completes: the
\* processing does not fail for running out of recorded steps.
C1_ShortfallCompletes ==
    Shortfall => ~(ctl = "raised" /\ error = Raised("IndexError", 345))

\* the source offsets the instruction stream itself carries
StreamOffsets ==
    LET expanded == expand_source_map(evm.sourceMap).val
    IN  {<<expanded[k][1][1], expanded[k][1][1] + expanded[k][2][1]>> :
            k \in {j \in 1..Len(expanded) : expanded[j] # None}}

\* C2: every bare revert call with no step of its own is stamped onto a
\* recorded revert-jump step of its function, earliest recorded first, each
\* onto a different step; the stamped step carries the call's offset and
\* the jump_revert marker, and its index leaves the function's record.
C2_DistinctEarliestFirst ==
    ctl \in {"reconcile", "finalize", "return"} =>
        /\ \A j \in 1..Len(stamped) :
            LET stamps == stamped[j][2]
                rest == revert_map[j][2]
                recorded == [i \in 1..Len(stamps) |-> stamps[i][2]] \o rest
            IN  /\ stamped[j][1] = revert_map[j][1]
                /\ \A a, b \in 1..Len(recorded) : a < b => recorded[a] < recorded[b]
                /\ \A i \in 1..Len(stamps) :
                    /\ pc_list[stamps[i][2] + 1].offset = stamps[i][1]
                    /\ pc_list[stamps[i][2] + 1].jump_revert
        /\ (revert_at > 1 /\ revert_nodes # <<>>) =>
            \A k \in 1..Len(revert_nodes) :
                (~revert_nodes[k].arguments /\ revert_nodes[k].offset \notin StreamOffsets)
                    => \E i \in 1..Len(stamped[revert_at - 1][2]) :
                           stamped[revert_at - 1][2][i][1] = revert_nodes[k].offset

\* two bare revert calls of one function have been stamped onto its two
\* recorded revert jumps
C2_Witness ==
    /\ ctl \in {"finalize", "return"}
    /\ \E j \in 1..Len(stamped) :
        /\ Len(stamped[j][2]) = 2
        /\ stamped[j][2][1][2] < stamped[j][2][2][2]
        /\ revert_map[j][2] = <<>>


(***************************************************************************)
(* The decoder: properties checked under SpecDecode                        *)
(***************************************************************************)

\* expand_source_map has just returned to generate_coverage_data
Expanded == ctl = "walk" /\ pc_list = <<>>

\* the compressed rows of the contract being processed
CompressedRows == split(evm.sourceMap, ";")

\* field x of compressed row `row` is empty or omitted
FieldEmpty(row, x) ==
    LET fields == split(row, ":")
    IN  x > Len(fields) \/ fields[x] = ""

\* field x of an expanded entry (an undefined entry has no defined field)
FieldOf(entry, x) == IF entry = None THEN None ELSE entry[x]

\* C3: in the expanded source map, for every entry i > 0, each of the four
\* fields that is empty or omitted in compressed entry i (an empty jump
\* field followed by a modifier field included) has the value of the same
\* field of expanded entry i-1, and a wholly empty entry equals expanded
\* entry i-1.  Stated for maps whose first entry gives all four fields, so
\* that every later field has a value to inherit.
C3_ForwardFill ==
    (Expanded /\ \A x \in 1..4 : ~FieldEmpty(CompressedRows[1], x)) =>
        \A i \in 2..Len(CompressedRows) :
            IF CompressedRows[i] = ""
            THEN source_map[i] = source_map[i - 1]
            ELSE \A x \in 1..4 :
                    FieldEmpty(CompressedRows[i], x)
                        => FieldOf(source_map[i], x) = FieldOf(source_map[i - 1], x)

\* C4: a compressed source map whose first entry is empty makes expansion
\* fail: expand_source_map raises and returns no sequence for such a map.
C4_LeadingEmptyFails ==
    (evm.opcodes # "" /\ CompressedRows[1] = "")
        => (ctl = "raised" /\ error[2] \in 374..389)

\* the number of non-operand opcode steps of an opcode string
OpcodeSteps(text) ==
    LET tokens == split(text, " ")
    IN  Cardinality({k \in 1..Len(tokens) :
                        tokens[k] # "" /\ StrTo(tokens[k], 2) # "0x"})

\* C5: whenever the number of source-map entries differs from the number of
\* non-operand opcode steps, generate_coverage_data returns no maps.
C5_CountMismatchFatal ==
    \A k \in 1..Len(build) :
        build[k].opcodes # ""
            => Len(split(build[k].deployedSourceMap, ";")) = OpcodeSteps(build[k].opcodes)


(***************************************************************************)
(* The walk and the branch finalizer: properties checked under Spec        *)
(***************************************************************************)

\* the entries of a coverage map, each with its path
Entries(map) == UNION {{<<p, e>> : e \in map[p]} : p \in paths}

\* C6: every statement coverage index occurs under exactly one (path,
\* function) of the statement map and on exactly one step of the pc map;
\* every statement candidate of a path is recorded under at most one index;
\* and a candidate still in the working set is nowhere in the statement map.
C6_StatementUniqueness ==
    /\ \A x, y \in Entries(statement_map) :
            /\ x[2].index = y[2].index => x = y
            /\ (x[1] = y[1] /\ x[2].value = y[2].value) => x = y
    /\ \A x \in Entries(statement_map) :
            /\ x[2].value \in shared_statement_nodes[x[1]]
            /\ x[2].value \notin statement_nodes[x[1]]
            /\ Cardinality({k \in 1..Len(pc_list) :
                    pc_list[k].statement = <<x[2].index>>}) = 1
    /\ \A k \in 1..Len(pc_list) :
            pc_list[k].statement # None =>
                \E x \in Entries(statement_map) :
                    /\ x[2].index = pc_list[k].statement[1]
                    /\ x[1] = pc_list[k].path[1]
                    /\ <<x[2].fn>> = pc_list[k].fn
    /\ \A j \in 1..Len(build) :
            build[j].opcodes # "" =>
                \A x \in Entries(build[j].statements) :
                    Cardinality({c \in DOMAIN build[j].pcMap :
                        build[j].pcMap[c].statement = <<x[2].index>>}) = 1

\* a returned statement map holds two indices and a candidate of that path
\* went unmatched
C6_Witness ==
    /\ ctl = "idle"
    /\ build # <<>>
    /\ \E p \in paths :
        /\ Cardinality(statement_map[p]) >= 2
        /\ statement_map[p] = build[Len(build)].statements[p]
        /\ statement_nodes[p] # {}

\* C7: when the finalizer is done, the branch map of every path holds
\* exactly one entry per resolved (offset -> (armed index, JUMPI index))
\* pair, each under its own coverage index; a branch still active at the
\* end of the stream has no entry and no branch index on its armed step.
C7_BranchCompleteness ==
    ctl = "return" =>
        /\ \A p \in paths :
            /\ Cardinality(branch_map[p]) = Len(branch_set[p])
            /\ \A k \in 1..Len(branch_set[p]) :
                Cardinality({e \in branch_map[p] :
                    <<e.value[1], e.value[2]>> = branch_set[p][k][1]}) = 1
            /\ \A k \in 1..Len(branch_active[p]) :
                /\ \A e \in branch_map[p] :
                        <<e.value[1], e.value[2]>> # branch_active[p][k][1]
                /\ pc_list[branch_active[p][k][2] + 1].branch = None
        /\ \A x, y \in Entries(branch_map) : x[2].index = y[2].index => x = y
        /\ \A x \in Entries(branch_map) :
            \E k \in 1..Len(branch_set[x[1]]) :
                LET pair == branch_set[x[1]][k]
                IN  /\ pair[1] = <<x[2].value[1], x[2].value[2]>>
                    /\ pc_list[pair[2][1] + 1].branch = <<x[2].index>>
                    /\ pc_list[pair[2][2] + 1].branch # None

\* the finalizer has numbered two resolved branches of one path
C7_Witness ==
    /\ ctl = "return"
    /\ \E p \in paths : Len(branch_set[p]) = 2 /\ Cardinality(branch_map[p]) = 2

\* C8: a step, or a resolved branch's armed step, without a function label
\* never makes generate_coverage_data fail: neither the revert-jump record
\* of the walk nor the finalizer's lookup for the armed step raises.
C8_MissingFnNonFatal ==
    ~(ctl = "raised" /\ error \in {Raised("KeyError", 330), Raised("KeyError", 361)})


(***************************************************************************)
(* Several invocations: properties checked under SpecBuild                 *)
(***************************************************************************)

\* C9: two runs of generate_coverage_data on identical inputs return
\* identical pc, statement and branch maps.
C9_Deterministic ==
    \A i, j \in 1..Len(build) :
        (build[i].deployedSourceMap = build[j].deployedSourceMap
            /\ build[i].opcodes = build[j].opcodes)
        => build[i] = build[j]

\* C10: generate_coverage_data leaves the caller's statement_nodes and
\* branch_nodes collections unchanged for every path, so every invocation
\* starts from the full candidate sets and a contract processed after
\* another gets the statement map it gets when processed first.
C10_CallerCollectionsUnchanged ==
    /\ shared_statement_nodes = get_statement_nodes
    /\ shared_branch_nodes = get_branch_nodes
    /\ Expanded =>
        /\ statement_nodes = get_statement_nodes
        /\ branch_original = get_branch_nodes
        /\ branch_nodes = BranchOffsets(get_branch_nodes)
    /\ \A i, j \in 1..Len(build) :
        (build[i].deployedSourceMap = build[j].deployedSourceMap
            /\ build[i].opcodes = build[j].opcodes)
        => build[i].statements = build[j].statements

\* a second contract has been processed after a first one that consumed
\* statement and branch candidates, and consumed candidates itself
C10_Witness ==
    /\ Len(build) = 2
    /\ \E p \in paths : build[1].statements[p] # {} /\ build[2].statements[p] # {}
    /\ \E p \in paths : build[1].branches[p] # {}


(***************************************************************************)
(* The candidate extractor: properties checked under SpecBranches          *)
(***************************************************************************)

\* the candidates of the condition below node i, from the root down: the
\* left operand of a boolean node takes its flag from that node's operator,
\* the right operand keeps the flag that reached the node; `operand` says
\* that node i is an operand of a boolean node
RECURSIVE ShortCircuitFlags(_, _, _, _)
ShortCircuitFlags(tree, i, flag, operand) ==
    IF BinariesIn(tree, i) = {}
    THEN IF operand THEN {[node |-> i, jump |-> flag]} ELSE {}
    ELSE IF tree[i] \in BoolOperators
    THEN ShortCircuitFlags(tree, 2 * i, tree[i] = "||", TRUE)
            \cup ShortCircuitFlags(tree, 2 * i + 1, flag, TRUE)
    ELSE ShortCircuitFlags(tree, 2 * i, flag, FALSE)
            \cup ShortCircuitFlags(tree, 2 * i + 1, flag, FALSE)

\* C11: for a condition that contains && or ||, the branch candidates are
\* exactly the operands that contain no && / || node; a candidate that is,
\* or descends from, the left operand of an ancestor && / || node has
\* jump = TRUE iff the nearest such ancestor is ||, and a candidate with no
\* such ancestor has jump = TRUE iff the construct is a require call.
C11_ShortCircuitFlags ==
    (binary_branches # None /\ BinariesIn(base_node.condition, 1) # {}) =>
        binary_branches[1] =
            ShortCircuitFlags(base_node.condition, 1,
                              base_node.node_type = "FunctionCall", FALSE)


(***************************************************************************)
(* The GasNow strategies: properties checked under SpecGas                 *)
(***************************************************************************)

\* update_gas_price has returned a price for the argument last_gas_price
Repriced == gas_error = None /\ gas_price # None /\ last_gas_price > 0

\* C12: update_gas_price gives max(initial_speed price, previous price
\* times increment), and when that would exceed the max_speed price no
\* repricing occurs: the result is the previous gas price.
C12_NoRepricingAboveMax ==
    Repriced =>
        LET new_gas_price == Max(fetched[1], Incremented(last_gas_price))
        IN  gas_price[1] = IF new_gas_price > fetched[2] THEN last_gas_price
                           ELSE new_gas_price


(***************************************************************************)
(* Termination: properties checked under SpecTermination                   *)
(***************************************************************************)

\* the entries expand_source_map decoded for the contract being processed
DecodedEntries == Len(split(evm.sourceMap, ";"))

\* generate_coverage_data has returned or an exception has left it
Ended == ctl \in {"idle", "raised"}

\* one iteration of the walk has been completed
Iterated == ctl = "walk" /\ ctl' = "walk"

\* C13: the walk terminates on every input: each iteration of the main loop
\* consumes exactly one decoded entry (and appends one step), so the loop
\* runs at most as many iterations as there are decoded entries; the
\* reconciliation pass only advances through the revert map built by the
\* walk; and the call always ends by returning or by raising.
C13_WalkTerminates ==
    /\ [][Iterated => /\ Len(source_map') = Len(source_map) - 1
                      /\ Len(pc_list') = Len(pc_list) + 1]_vars
    /\ [](ctl = "walk" => Len(pc_list) + Len(source_map) = DecodedEntries)
    /\ [][ctl = "reconcile" /\ ctl' = "reconcile" =>
            /\ revert_at' = revert_at + 1
            /\ Len(revert_map') = Len(revert_map)]_vars
    /\ [](ctl = "reconcile" => revert_at <= Len(revert_map) + 1)
    /\ (ctl = "walk") ~> Ended

\* a call has returned after a walk that consumed every decoded entry and
\* a reconciliation pass over a recorded revert jump
C13_Witness ==
    /\ ctl = "idle"
    /\ contracts = <<>>
    /\ build # <<>>
    /\ source_map = <<>>
    /\ Len(pc_list) = DecodedEntries
    /\ Len(pc_list) > MaxSteps
    /\ revert_at > 1


(***************************************************************************)
(* Branch bookkeeping: properties checked under Spec                       *)
(***************************************************************************)

\* the (armed index, JUMPI index) pairs the resolved map of `path` holds
\* for the offset of branch map entry e
ResolvedPairs(path, e) ==
    {branch_set[path][k][2] : k \in {j \in 1..Len(branch_set[path]) :
        branch_set[path][j][1] = <<e.value[1], e.value[2]>>}}

\* C14: in the returned pc map, for every branch map entry with coverage
\* index c, the step at its armed index and the JUMPI step that resolved it
\* both carry branch = c, also when several branches of one path were
\* resolved by the same JUMPI step.
C14_BranchOnBothSteps ==
    ctl = "return" =>
        \A x \in Entries(branch_map) :
            \A idx \in ResolvedPairs(x[1], x[2]) :
                /\ pc_list[idx[1] + 1].branch = <<x[2].index>>
                /\ pc_list[idx[2] + 1].branch = <<x[2].index>>


\* the function label line 311 gives a step of `path` whose offset is `offset`
EnclosingFn(path, offset) ==
    IF FunctionsAround(path, offset) = <<>> THEN None
    ELSE <<FunctionsAround(path, offset)[1].full_name>>

\* C15: a step with statement index k is attributed by its own offset: the
\* statement range recorded under k contains the offset recorded on that
\* step, and the step's fn is the function enclosing that offset (or the fn
\* of the step before, when that step has the same recorded offset), also
\* when the step is a JUMPI that resolved active branches.
C15_AttributedByOwnOffset ==
    \A k \in 1..Len(pc_list) :
        LET step == pc_list[k]
        IN  (step.statement # None /\ ~step.jump_revert) =>
                /\ \E e \in statement_map[step.path[1]] :
                        /\ e.index = step.statement[1]
                        /\ is_inside_offset(step.offset, e.value)
                /\ \/ /\ EnclosingFn(step.path[1], step.offset) # None
                      /\ step.fn = EnclosingFn(step.path[1], step.offset)
                   \/ /\ k > 1
                      /\ pc_list[k - 1].offset = step.offset
                      /\ step.fn = pc_list[k - 1].fn


\* the step the walk has just appended
LastStep == pc_list[Len(pc_list)]

\* branch offset `offset` of `path` enters the resolved map in this step
Resolves(path, offset) ==
    /\ offset \in DictKeys(branch_set'[path])
    /\ \/ offset \notin DictKeys(branch_set[path])
       \/ DictGet(branch_set'[path], offset) # DictGet(branch_set[path], offset)

\* C16: a branch offset enters the resolved map only at a JUMPI step of its
\* own path that carries a source offset, while that branch is active;
\* immediately after such a step the active map of the path is empty; and
\* the recorded armed index is strictly less than the JUMPI index and is
\* the index of the latest step before the JUMPI whose offset (in that path)
\* equals the branch offset.
C16_ResolutionOrdering ==
    /\ [][\A p \in paths : \A b \in branch_nodes[p] :
            Resolves(p, b) =>
                /\ Len(pc_list') = Len(pc_list) + 1
                /\ LastStep'.op = "JUMPI"
                /\ LastStep'.path = <<p>>
                /\ LastStep'.offset # None
                /\ b \in DictKeys(branch_active[p])
                /\ DictGet(branch_set'[p], b) =
                        <<DictGet(branch_active[p], b), Len(pc_list)>>
                /\ branch_active'[p] = <<>>]_vars
    /\ [](ctl = "walk" =>
            \A p \in paths : \A k \in 1..Len(branch_set[p]) :
                LET b == branch_set[p][k][1]
                    armed == branch_set[p][k][2][1]
                    jumpi == branch_set[p][k][2][2]
                IN  /\ armed < jumpi
                    /\ jumpi < Len(pc_list)
                    /\ pc_list[armed + 1].offset = b
                    /\ pc_list[armed + 1].path = <<p>>
                    /\ pc_list[jumpi + 1].op = "JUMPI"
                    /\ \A i \in (armed + 1)..(jumpi - 1) :
                            ~(pc_list[i + 1].offset = b /\ pc_list[i + 1].path = <<p>>))

\* a JUMPI has resolved a branch that was armed twice: the resolved map
\* holds the second armed index
C16_Witness ==
    /\ ctl = "walk"
    /\ \E p \in paths : \E k \in 1..Len(branch_set[p]) :
        /\ branch_active[p] = <<>>
        /\ branch_set[p][k][2][2] = Len(pc_list) - 1
        /\ \E i \in 1..branch_set[p][k][2][1] :
            /\ pc_list[i].offset = branch_set[p][k][1]
            /\ pc_list[i].path = <<p>>


\* the step appended by this iteration has the offset of a branch candidate
\* of its path and is not a JUMPI that resolves active branches
Arms(path, offset) ==
    /\ ctl = "walk" /\ ctl' = "walk"
    /\ LastStep'.path = <<path>>
    /\ LastStep'.offset = offset
    /\ ~(LastStep'.op = "JUMPI" /\ branch_active[path] # <<>>)

\* C17: re-arming supersedes resolution: a step that is not a resolving
\* JUMPI and has the offset of a branch candidate removes that offset from
\* the resolved map and marks it active at this step's index; so no offset
\* of a path is ever in both the active and the resolved map, and a branch
\* that is still active when the stream ends has no branch map entry.
C17_RearmingSupersedes ==
    /\ [][\A p \in paths : \A b \in branch_nodes[p] :
            Arms(p, b) =>
                /\ b \notin DictKeys(branch_set'[p])
                /\ b \in DictKeys(branch_active'[p])
                /\ DictGet(branch_active'[p], b) = Len(pc_list)
                /\ Len(pc_list') = Len(pc_list) + 1]_vars
    /\ [](\A p \in paths : DictKeys(branch_active[p]) \cap DictKeys(branch_set[p]) = {})
    /\ [](ctl = "return" =>
            \A p \in paths : \A b \in DictKeys(branch_active[p]) :
                \A e \in branch_map[p] : <<e.value[1], e.value[2]>> # b)

\* a branch was armed, resolved by a JUMPI and armed again by the last step:
\* the returned branch map has no entry for it
C17_Witness ==
    /\ ctl = "return"
    /\ \E p \in paths : \E b \in DictKeys(branch_active[p]) :
        /\ DictGet(branch_active[p], b) = Len(pc_list) - 1
        /\ \E i, j \in 1..(Len(pc_list) - 1) :
            /\ i < j
            /\ pc_list[i].offset = b /\ pc_list[i].path = <<p>>
            /\ pc_list[j].op = "JUMPI" /\ pc_list[j].path = <<p>>
            /\ pc_list[j].offset # None
        /\ \A e \in branch_map[p] : <<e.value[1], e.value[2]>> # b


(***************************************************************************)
(* Revert-jump bookkeeping: a property checked under SpecRevert            *)
(***************************************************************************)

\* the step indices the walk recorded as jumps to the first revert: those
\* still in the revert map and those reconciliation has stamped
RecordedJumps ==
    UNION {Range(revert_map[j][2]) : j \in 1..Len(revert_map)}
        \cup UNION {{stamped[j][2][i][2] : i \in 1..Len(stamped[j][2])} :
                        j \in 1..Len(stamped)}

\* C18: the index recorded for a jump to the first revert is the index of
\* the step that carries the literal value equal to first_revert, so the
\* step reconciliation stamps with jump_revert is that step, and the index
\* always refers to a step of the pc list.
C18_RecordsPushingStep ==
    ctl \in {"reconcile", "finalize", "return"} =>
        /\ \A i \in RecordedJumps :
            /\ i < Len(pc_list)
            /\ pc_list[i + 1].value # None
            /\ pc_list[i + 1].value = first_revert
        /\ \A k \in 1..Len(pc_list) :
            pc_list[k].jump_revert =>
                (pc_list[k].value # None /\ pc_list[k].value = first_revert)


(***************************************************************************)
(* Coverage indices and program counters: properties checked under Spec    *)
(***************************************************************************)

\* the coverage indices of a map
Indices(map) == {x[2].index : x \in Entries(map)}

\* C19: statement and branch indices come from one counter that starts at 0
\* and grows by one per assignment: together they are exactly 0..n-1, no
\* index is both a statement and a branch index, statement indices increase
\* in the order in which steps first touch their statements, whatever the
\* path and function, and every branch index is greater than every
\* statement index.
C19_SharedIndexSpace ==
    /\ [][ctl' = "walk" =>
            IF ctl = "idle" THEN count' = 0
            ELSE /\ count' \in {count, count + 1}
                 /\ count' = count + 1 <=> LastStep'.statement = <<count>>]_vars
    /\ [](ctl \in {"walk", "reconcile", "finalize"} =>
            /\ Indices(statement_map) = 0..(count - 1)
            /\ Indices(branch_map) = {})
    /\ [](ctl = "return" =>
            /\ Indices(statement_map) \cup Indices(branch_map) = 0..(count - 1)
            /\ Indices(statement_map) \cap Indices(branch_map) = {}
            /\ Cardinality(Entries(statement_map)) = Cardinality(Indices(statement_map))
            /\ Cardinality(Entries(branch_map)) = Cardinality(Indices(branch_map))
            /\ \A a, b \in 1..Len(pc_list) :
                (a < b /\ pc_list[a].statement # None /\ pc_list[b].statement # None)
                    => pc_list[a].statement[1] < pc_list[b].statement[1]
            /\ \A x \in Indices(statement_map) : \A y \in Indices(branch_map) : x < y)

\* a run has returned statements of both paths and a branch
C19_Witness ==
    /\ ctl = "return"
    /\ \A p \in paths : statement_map[p] # {}
    /\ Indices(branch_map) # {}
    /\ count = 3


(***************************************************************************)
(* Program counters: a property checked under SpecPc                       *)
(***************************************************************************)

\* the tokens of the opcode string of the contract being processed
Tokens == split(evm.opcodes, " ")

\* token k of `tokens` is an operand
IsOperand(tokens, k) == k <= Len(tokens) /\ StrTo(tokens[k], 2) = "0x"

\* the places of the tokens that are not operands, in order
StepTokens(tokens) ==
    SelectSeq([k \in 1..Len(tokens) |-> k],
              LAMBDA k : tokens[k] # "" /\ ~IsOperand(tokens, k))

\* the bytes the instruction at token k takes: 1, and N more for a PUSHN
\* that an operand follows
BytesOf(tokens, k) ==
    1 + (IF IsOperand(tokens, k + 1) /\ StrTo(tokens[k], 4) = "PUSH"
         THEN int(StrFrom(tokens[k], 4)) ELSE 0)

\* the sum of BytesOf over the first n instructions, which are at `places`
RECURSIVE BytesBefore(_, _, _)
BytesBefore(tokens, places, n) ==
    IF n = 0 THEN 0
    ELSE BytesBefore(tokens, places, n - 1) + BytesOf(tokens, places[n])

\* C20: the pc key of the i-th step is the sum, over all earlier steps, of 1
\* plus the operand width N of a PUSHN that a 0x operand token follows; an
\* operand token consumes no source map entry and is no step of its own; so
\* pc keys are strictly increasing and no two steps share a pc.
C20_PcArithmetic ==
    ctl \in {"walk", "reconcile", "finalize", "return"} =>
        LET tokens == Tokens
            places == StepTokens(tokens)
        IN  /\ Len(pc_list) <= Len(places)
            /\ Len(pc_list) + Len(source_map) = DecodedEntries
            /\ pc = BytesBefore(tokens, places, Len(pc_list))
            /\ \A i \in 1..Len(pc_list) :
                /\ pc_list[i].op = tokens[places[i]]
                /\ pc_list[i].pc = BytesBefore(tokens, places, i - 1)
                /\ pc_list[i].value =
                        IF IsOperand(tokens, places[i] + 1)
                        THEN <<tokens[places[i] + 1]>> ELSE None
            /\ \A i, j \in 1..Len(pc_list) : i < j => pc_list[i].pc < pc_list[j].pc

\* the walk is done with a stream holding a PUSH32 and a PUSH2 with their
\* operands, followed by a further step
C20_Witness ==
    /\ ctl = "reconcile"
    /\ Len(pc_list) = MaxSteps + 1
    /\ \E i, j \in 1..MaxSteps :
        /\ pc_list[i].op = "PUSH32" /\ pc_list[i].value # None
        /\ pc_list[j].op = "PUSH2" /\ pc_list[j].value # None
    /\ pc_list[MaxSteps + 1].pc >= 2 + 33 + 3


(***************************************************************************)
(* The shared revert target: a property checked under SpecFirstRevert      *)
(***************************************************************************)

\* step k is a REVERT whose three preceding opcodes are JUMPDEST, PUSH1, DUP1
SelectorRevertAt(k) ==
    /\ k >= 4
    /\ pc_list[k].op = "REVERT"
    /\ pc_list[k - 3].op = "JUMPDEST"
    /\ pc_list[k - 2].op = "PUSH1"
    /\ pc_list[k - 1].op = "DUP1"

UpperHexDigits == <<"0", "1", "2", "3", "4", "5", "6", "7", "8", "9",
                    "A", "B", "C", "D", "E", "F">>

\* the number a sentinel "0x..." denotes
RECURSIVE HexValue(_, _, _)
HexValue(text, i, acc) ==
    IF i > Len(text) THEN acc
    ELSE HexValue(text, i + 1,
                  16 * acc + (CHOOSE d \in 0..15 : UpperHexDigits[d + 1] = SubSeq(text, i, i)))

\* C21: the shared revert target is recorded once and never changes: at most
\* one step carries the first_revert marker; it is the earliest REVERT whose
\* three preceding opcodes are JUMPDEST, PUSH1, DUP1, with or without source
\* attribution; the sentinel denotes the pc of that JUMPDEST; and later
\* REVERT steps with the same pattern neither change the sentinel nor get
\* the marker.
C21_FirstRevertOnce ==
    /\ [](ctl \in {"walk", "reconcile", "finalize", "return"} =>
            LET marked == {k \in 1..Len(pc_list) : pc_list[k].first_revert}
                selectors == {k \in 1..Len(pc_list) : SelectorRevertAt(k)}
            IN  /\ Cardinality(marked) <= 1
                /\ first_revert = None <=> selectors = {}
                /\ selectors = {} => marked = {}
                /\ selectors # {} =>
                    LET first == CHOOSE k \in selectors : \A j \in selectors : k <= j
                    IN  /\ marked = {first}
                        /\ StrTo(first_revert[1], 2) = "0x"
                        /\ HexValue(first_revert[1], 3, 0) = pc_list[first - 3].pc)
    /\ [][first_revert # None => first_revert' = first_revert]_vars

\* a selector revert whose JUMPDEST is at pc 11 was recorded as "0xB", and a
\* later selector revert, this one attributed, has gone by unmarked
C21_Witness ==
    /\ ctl = "return"
    /\ first_revert = <<"0xB">>
    /\ \E j, k \in 1..Len(pc_list) :
        /\ j < k
        /\ SelectorRevertAt(j) /\ pc_list[j].first_revert /\ pc_list[j].path = None
        /\ SelectorRevertAt(k) /\ ~pc_list[k].first_revert /\ pc_list[k].path # None


(***************************************************************************)
(* The GasNow cache under concurrent callers: a property checked under     *)
(* SpecFetch                                                               *)
(***************************************************************************)

\* thread t is inside the with block of _fetch_gasnow
InRefresh(t) == callers[t].at \in {"check", "request", "sleep"}

\* thread t issues a request in this step
Requests(t) == callers'[t].sent = callers[t].sent + 1

\* C22: refreshes of the GasNow cache are serialized by the lock: no two
\* threads are in a refresh at once, and the cached timestamp and prices are
\* written only by the lock holder; a call that finds the cache fresh (local
\* time minus cached timestamp at most 15 s) issues no request; a refresh
\* issues no further request once it has received a 200 response; and when
\* all 12 attempts return another status the call raises ValueError and
\* leaves the cached timestamp and prices as they were.
C22_SerializedRefresh ==
    /\ [](\A t \in Threads : InRefresh(t) =>
            /\ _gasnow_lock = <<t>>
            /\ \A u \in Threads : InRefresh(u) => u = t)
    /\ [][(_gasnow_update' # _gasnow_update \/ _gasnow_data' # _gasnow_data) =>
            \E t \in Threads : _gasnow_lock = <<t>> /\ callers'[t] # callers[t]]_vars
    /\ [][\A t \in Threads :
            (/\ callers[t].at = "check"
             /\ callers'[t] # callers[t]
             /\ now - _gasnow_update <= FreshSeconds) =>
                /\ callers'[t].at = "return"
                /\ callers'[t].sent = 0]_vars
    /\ [](\A t \in Threads : (callers[t].at = "return" /\ callers[t].fresh) =>
            callers[t].sent = 0)
    /\ [][\A t \in Threads : Requests(t) => callers[t].data = None]_vars
    /\ [][\A t \in Threads :
            (/\ callers[t].at = "request"
             /\ callers[t].i = Attempts
             /\ callers[t].data = None
             /\ callers'[t] # callers[t]) =>
                /\ callers'[t].at = "raised"
                /\ callers[t].sent = Attempts
                /\ _gasnow_update' = _gasnow_update
                /\ _gasnow_data' = _gasnow_data]_vars
    /\ [](\A t \in Threads : callers[t].at = "raised" =>
            callers[t].data = None /\ callers[t].sent = Attempts)

====
